---- MODULE Spec2Model ----
(***************************************************************************)
(* A model of tools/tablet_publisher/tablet_publisher.py: the interactive  *)
(* TCP JSON publisher that delivers one frame whole, fragmented,           *)
(* truncated, or two frames coalesced.                                     *)
(*                                                                         *)
(* Bytes are integers 0..255 and a byte string is a sequence of them.      *)
(* The program is single threaded: pc is the line it stands at.  A call of *)
(* send_case_once runs between pc = "call" and pc = "return" / "raise".    *)
(*                                                                         *)
(* Specifications:                                                         *)
(*   Spec         main(): the whole session, frames from the real encoder  *)
(*   SpecWire     main() with an observer of each connection's byte stream *)
(*                and of the failed deliveries                             *)
(*   SpecConnect  connect_with_retry and the delivery of the pending      *)
(*                command, from every state main() calls it in             *)
(*   SpecChunked  send_chunked applied to every short byte string          *)
(*   SpecSendAll  send_all applied to every short byte string              *)
(*   SpecSplit    split_into_n_chunks applied to every short byte string   *)
(***************************************************************************)
EXTENDS Integers, Sequences, FiniteSets, TLC

(***************************************************************************)
(* Bounds of the model.                                                    *)
(***************************************************************************)
\* longest byte string given to split_into_n_chunks / send_chunked directly
MaxLen == 5
\* largest chunk count requested directly (the smallest is MinCount)
MaxCount == 7
\* accepted commands (keys 1-4) per session
MaxInputs == 5
\* partial acceptances (0 < sent < offered) in one call of send_case_once
MaxPartial == 1
\* accepted commands per session while the connections' streams are observed
MaxWireInputs == 2
\* accepted commands, the pending one included, when connect_with_retry is
\* followed through its retries and the pending command's delivery
MaxConnectInputs == 2

MinCount == 0 - 2

Bytes == {0, 1}

Min(a, b) == IF a < b THEN a ELSE b
Max(a, b) == IF a > b THEN a ELSE b

\* every byte string over Bytes of length 0..n
ByteStrings(n) == UNION {[1..k -> Bytes] : k \in 0..n}

(***************************************************************************)
(* Python values and slices.                                               *)
(***************************************************************************)
None == 0

\* data[a:b] for 0 <= a, 0 <= b: the slice clamps to the string
Slice(s, a, b) == SubSeq(s, a + 1, Min(b, Len(s)))

\* sum of the lengths of the first k strings of a list
RECURSIVE LenSum(_, _)
LenSum(list, k) == IF k = 0 THEN 0 ELSE LenSum(list, k - 1) + Len(list[k])

\* b"".join(list)
RECURSIVE Concat(_)
Concat(list) == IF list = <<>> THEN <<>> ELSE Head(list) \o Concat(Tail(list))

(***************************************************************************)
(* split_into_n_chunks (lines 55-75)                                       *)
(***************************************************************************)
\* line 72 / line 99: size = base + (1 if i < remainder else 0)
chunk_size(length, chunk_count, i) ==
    (length \div chunk_count) + (IF i < (length % chunk_count) THEN 1 ELSE 0)

\* lines 70-75: the loop, from index i at offset with chunks so far
RECURSIVE split_loop(_, _, _, _, _)
split_loop(data, chunk_count, i, offset, chunks) ==
    IF i >= chunk_count THEN chunks
    ELSE LET size == chunk_size(Len(data), chunk_count, i)
         IN  split_loop(data, chunk_count, i + 1, offset + size,
                        Append(chunks, Slice(data, offset, offset + size)))

\* faulty variants of the splitter: the last slice takes the whole remainder;
\* the count is not capped by the length; the remainder is dropped; a count
\* <= 0 yields no slice
C3_MutSplit(data, chunk_count) ==
    IF chunk_count <= 1 THEN <<data>>
    ELSE IF Len(data) = 0 THEN << <<>> >>
    ELSE LET n == Min(chunk_count, Len(data))
             base == Len(data) \div n
         IN  [k \in 1..n |->
                 IF k < n THEN Slice(data, (k - 1) * base, k * base)
                 ELSE Slice(data, (k - 1) * base, Len(data))]

C2_MutSplit(data, chunk_count) ==
    IF chunk_count <= 1 THEN <<data>>
    ELSE IF Len(data) = 0 THEN << <<>> >>
    ELSE LET base == Len(data) \div chunk_count
             rem  == Len(data) % chunk_count
         IN  [k \in 1..chunk_count |->
                 LET off == (k - 1) * base + Min(k - 1, rem)
                 IN  Slice(data, off, off + base + (IF k - 1 < rem THEN 1 ELSE 0))]

C1_MutSplit(data, chunk_count) ==
    IF chunk_count <= 1 THEN <<data>>
    ELSE IF Len(data) = 0 THEN << <<>> >>
    ELSE LET n == Min(chunk_count, Len(data))
             base == Len(data) \div n
         IN  [k \in 1..n |-> Slice(data, (k - 1) * base, k * base)]

C4_MutSplit(data, chunk_count) ==
    IF chunk_count <= 0 THEN <<>>
    ELSE IF chunk_count = 1 THEN <<data>>
    ELSE IF Len(data) = 0 THEN << <<>> >>
    ELSE split_loop(data, Min(chunk_count, Len(data)), 0, 0, <<>>)

split_into_n_chunks(data, chunk_count) ==
    IF chunk_count <= 1 THEN <<data>>
    ELSE IF Len(data) = 0 THEN << <<>> >>
    ELSE split_loop(data, Min(chunk_count, Len(data)), 0, 0, <<>>)

(***************************************************************************)
(* The frame encoder (lines 21-43).  Strings are their UTF-8 bytes.        *)
(***************************************************************************)
CASE_NAME_BY_KEY == {<<49>>, <<50>>, <<51>>, <<52>>}    \* "1", "2", "3", "4"

RES_SEQUENCE == <<0, 1, 2, 99>>

\* str(n) of an int, as json.dumps writes it
RECURSIVE Digits(_)
Digits(n) ==
    IF n < 0 THEN <<45>> \o Digits(0 - n)
    ELSE IF n < 10 THEN <<48 + n>>
    ELSE Digits(n \div 10) \o <<48 + (n % 10)>>

\* What one call of build_sample_message takes from outside the program: the
\* clock (int(time.time() * 1000)) and five draws of the random module.
Draws ==
    { [pub_timestamp |-> 1700000000, command |-> 0, measure |-> 0, work_type |-> 0,
       fork_height_mm |-> 0, fork_forward_mm |-> 3000],
      [pub_timestamp |-> 1700000001, command |-> 3, measure |-> 1, work_type |-> 2,
       fork_height_mm |-> 1500, fork_forward_mm |-> 25] }

\* lines 21-35
build_sample_message(seq_no, res, draw) ==
    [res |-> res,
     driver_instance_id |-> 1,
     seq_no |-> seq_no,
     pub_timestamp |-> draw.pub_timestamp,
     command |-> draw.command,
     measure |-> draw.measure,
     work_type |-> draw.work_type,
     payload |-> [fork_height_mm |-> draw.fork_height_mm,
                  fork_forward_mm |-> draw.fork_forward_mm,
                  note |-> "hello_tablet"]]

\* {"res":
JsonRes ==
    <<123, 34, 114, 101, 115, 34, 58>>
\* ,"driver_instance_id":
JsonDriver ==
    <<44, 34, 100, 114, 105, 118, 101, 114, 95, 105, 110, 115, 116, 97, 110,
    99, 101, 95, 105, 100, 34, 58>>
\* ,"seq_no":
JsonSeqNo ==
    <<44, 34, 115, 101, 113, 95, 110, 111, 34, 58>>
\* ,"pub_timestamp":
JsonPubTimestamp ==
    <<44, 34, 112, 117, 98, 95, 116, 105, 109, 101, 115, 116, 97, 109, 112,
    34, 58>>
\* ,"command":
JsonCommand ==
    <<44, 34, 99, 111, 109, 109, 97, 110, 100, 34, 58>>
\* ,"measure":
JsonMeasure ==
    <<44, 34, 109, 101, 97, 115, 117, 114, 101, 34, 58>>
\* ,"work_type":
JsonWorkType ==
    <<44, 34, 119, 111, 114, 107, 95, 116, 121, 112, 101, 34, 58>>
\* ,"payload":{"fork_height_mm":
JsonForkHeight ==
    <<44, 34, 112, 97, 121, 108, 111, 97, 100, 34, 58, 123, 34, 102, 111,
    114, 107, 95, 104, 101, 105, 103, 104, 116, 95, 109, 109, 34, 58>>
\* ,"fork_forward_mm":
JsonForkForward ==
    <<44, 34, 102, 111, 114, 107, 95, 102, 111, 114, 119, 97, 114, 100, 95,
    109, 109, 34, 58>>
\* ,"note":"hello_tablet"}}
JsonNote ==
    <<44, 34, 110, 111, 116, 101, 34, 58, 34, 104, 101, 108, 108, 111, 95,
    116, 97, 98, 108, 101, 116, 34, 125, 125>>

\* line 40: json.dumps(msg, separators=(",", ":"), ensure_ascii=False).encode("utf-8")
\* keys in insertion order, no whitespace
json_dumps(msg) ==
    JsonRes \o Digits(msg.res)
    \o JsonDriver \o Digits(msg.driver_instance_id)
    \o JsonSeqNo \o Digits(msg.seq_no)
    \o JsonPubTimestamp \o Digits(msg.pub_timestamp)
    \o JsonCommand \o Digits(msg.command)
    \o JsonMeasure \o Digits(msg.measure)
    \o JsonWorkType \o Digits(msg.work_type)
    \o JsonForkHeight \o Digits(msg.payload.fork_height_mm)
    \o JsonForkForward \o Digits(msg.payload.fork_forward_mm)
    \o JsonNote

\* lines 38-43
encode_message_bytes(seq_no, res, delimiter, draw) ==
    LET body == json_dumps(build_sample_message(seq_no, res, draw))
    IN  IF delimiter = "newline" THEN body \o <<10>> ELSE body

VARIABLES
    pc,                 \* the line the program stands at
    \* main()
    args, seq_no, input_count, sock, key, res,
    \* send_case_once
    payload, payload_full, payload1, payload2, actual_chunk_count, ret, exc,
    \* send_chunked
    chunk_count, i, offset,
    \* send_all (and the arguments of split_into_n_chunks)
    data, total, sent,
    \* split_into_n_chunks' result
    chunks,
    \* the environment, and what the current call has done so far; backoff is
    \* the seconds connect_with_retry slept before its current attempt (0
    \* when the attempt is the call's first, or no call is under way)
    handoffs, writes, sleeps, opened, backoff, partials,
    \* observers (SpecWire): the bytes the open connection has accepted, the
    \* bytes the calls on it set out to write, the deliveries that failed
    wire, planned, failed

mainVars    == <<args, seq_no, input_count, sock, key, res>>
caseVars    == <<payload, payload_full, payload1, payload2, actual_chunk_count, ret, exc>>
chunkedVars == <<chunk_count, i, offset>>
sendVars    == <<data, total, sent>>
envVars     == <<handoffs, writes, sleeps, opened, backoff, partials>>
obsVars     == <<wire, planned, failed>>
vars == <<pc, mainVars, caseVars, chunkedVars, sendVars, chunks, envVars, obsVars>>

DefaultArgs == [delimiter |-> "none", min_chunk |-> 1, max_chunk |-> 16, jitter_ms |-> 5]

(***************************************************************************)
(* SpecSplit: split_into_n_chunks(data, chunk_count) on every byte string  *)
(* of at most MaxLen bytes and every count in MinCount..MaxCount.          *)
(***************************************************************************)
InitSplit ==
    /\ pc = "split_call"
    /\ args = DefaultArgs
    /\ seq_no = 1 /\ input_count = 0 /\ sock = None /\ key = <<>> /\ res = 0
    /\ payload = <<>> /\ payload_full = <<>> /\ payload1 = <<>> /\ payload2 = <<>>
    /\ actual_chunk_count = None /\ ret = None /\ exc = "none"
    /\ chunk_count \in MinCount..MaxCount /\ i = 0 /\ offset = 0
    /\ data \in ByteStrings(MaxLen) /\ total = 0 /\ sent = 0
    /\ chunks = <<>>
    /\ handoffs = <<>> /\ writes = <<>> /\ sleeps = <<>>
    /\ opened = 0 /\ backoff = 0 /\ partials = 0
    /\ wire = <<>> /\ planned = <<>> /\ failed = {}

SplitIntoNChunks ==
    /\ pc = "split_call"
    /\ chunks' = split_into_n_chunks(data, chunk_count)
    /\ pc' = "split_return"
    /\ UNCHANGED <<mainVars, caseVars, chunkedVars, sendVars, envVars>>

NextSplit == SplitIntoNChunks /\ UNCHANGED obsVars

SpecSplit == InitSplit /\ [][NextSplit]_vars

(***************************************************************************)
(* The program's steps.  handoffs, writes and sleeps list what the current *)
(* call of send_case_once has done so far: every sock.send (what it was    *)
(* offered, what it reported), every send_all, every sleep.                *)
(***************************************************************************)
\* the locals of send_case_once, send_chunked and send_all, unset
NoLocals ==
    /\ payload' = <<>> /\ payload_full' = <<>> /\ payload1' = <<>> /\ payload2' = <<>>
    /\ actual_chunk_count' = None /\ ret' = None /\ exc' = "none"
    /\ chunk_count' = 0 /\ i' = 0 /\ offset' = 0
    /\ data' = <<>> /\ total' = 0 /\ sent' = 0

\* ---- send_all (lines 46-52) ----
\* line 46-47: the call send_all(sock, bytes), the log of writes being log
CallSendAll(bytes, log) ==
    /\ data' = bytes
    /\ total' = 0
    /\ sent' = 0
    /\ writes' = Append(log, bytes)
    /\ pc' = "send_all"

\* faulty variant: the loop runs once more when everything has been accepted
C20_MutSendAllLoop ==
    /\ pc = "send_all"
    /\ pc' = IF total <= Len(data) THEN "sock_send" ELSE "send_all_return"
    /\ UNCHANGED <<mainVars, caseVars, chunkedVars, sendVars, chunks, envVars>>

\* line 48: while total < len(data)
SendAllLoop ==
    /\ pc = "send_all"
    /\ pc' = IF total < Len(data) THEN "sock_send" ELSE "send_all_return"
    /\ UNCHANGED <<mainVars, caseVars, chunkedVars, sendVars, chunks, envVars>>

\* What sock.send may report for n offered bytes: a count -1..n.  Partial
\* counts are 1 or n - 1, and at most MaxPartial of them per call.
SendResults(n) ==
    {r \in (0 - 1)..n :
        \/ r <= 0
        \/ r = n
        \/ partials < MaxPartial /\ (r = 1 \/ r = n - 1)}

\* faulty variant: only a negative count is taken as a failure
C10_MutSendFailed(r) == r < 0

\* line 50: if sent <= 0
send_failed(r) == r <= 0

\* line 49: sent = sock.send(data[total:]); the transport takes the first
\* `sent` bytes of what it is offered
SockSend ==
    /\ pc = "sock_send"
    /\ LET offered == Slice(data, total, Len(data))
       IN  \E r \in SendResults(Len(offered)) :
             /\ sent' = r
             /\ handoffs' = Append(handoffs,
                                   [offered |-> offered, sent |-> r, raised |-> FALSE])
             /\ partials' = IF 0 < r /\ r < Len(offered) THEN partials + 1 ELSE partials
    /\ pc' = "send_check"
    /\ UNCHANGED <<mainVars, caseVars, chunkedVars, data, total, chunks,
                   writes, sleeps, opened, backoff>>

\* line 49: sock.send raises OSError (a reset or closed connection)
SockSendRaises ==
    /\ pc = "sock_send"
    /\ handoffs' = Append(handoffs,
                          [offered |-> Slice(data, total, Len(data)), sent |-> 0,
                           raised |-> TRUE])
    /\ exc' = "OSError"
    /\ pc' = "raise"
    /\ UNCHANGED <<mainVars, payload, payload_full, payload1, payload2,
                   actual_chunk_count, ret, chunkedVars, sendVars, chunks,
                   writes, sleeps, opened, backoff, partials>>

\* faulty variant: the count of the last hand-off replaces the running total
C11_MutAdvance(count, accepted) == accepted

\* faulty variant: one byte too many is counted as sent
C6_MutAdvance(count, accepted) == count + accepted + 1

\* line 52: total += sent
advance(count, accepted) == count + accepted

\* lines 50-52
SendCheck ==
    /\ pc = "send_check"
    /\ IF send_failed(sent)
       THEN /\ exc' = "RuntimeError"
            /\ pc' = "raise"
            /\ UNCHANGED total
       ELSE /\ total' = advance(total, sent)
            /\ pc' = "send_all"
            /\ UNCHANGED exc
    /\ UNCHANGED <<mainVars, payload, payload_full, payload1, payload2,
                   actual_chunk_count, ret, chunkedVars, data, sent, chunks, envVars>>

\* faulty variant: the range is not validated
C15_MutValidate ==
    /\ pc = "send_chunked"
    /\ exc' = exc /\ pc' = "randint"
    /\ UNCHANGED <<mainVars, payload, payload_full, payload1, payload2,
                   actual_chunk_count, ret, chunkedVars, sendVars, chunks, envVars>>

\* ---- send_chunked (lines 77-107) ----
\* lines 82-85
SendChunkedValidate ==
    /\ pc = "send_chunked"
    /\ IF args.min_chunk <= 0 \/ args.max_chunk < args.min_chunk
       THEN exc' = "ValueError" /\ pc' = "raise"
       ELSE exc' = exc /\ pc' = "randint"
    /\ UNCHANGED <<mainVars, payload, payload_full, payload1, payload2,
                   actual_chunk_count, ret, chunkedVars, sendVars, chunks, envVars>>

\* faulty variant: the drawn count is not capped
C5_MutRealized(drawn, length) == drawn

\* lines 90-92: the drawn count, at most the payload's length
realized_chunk_count(drawn, length) == IF drawn > length THEN length ELSE drawn

\* lines 87-97: draw the count; base = length // chunk_count raises
\* ZeroDivisionError for an empty payload
SendChunkedPlan ==
    /\ pc = "randint"
    /\ \E drawn \in args.min_chunk..args.max_chunk :
         LET n == realized_chunk_count(drawn, Len(payload))
         IN  /\ chunk_count' = n
             /\ IF n = 0
                THEN exc' = "ZeroDivisionError" /\ pc' = "raise"
                ELSE exc' = exc /\ pc' = "chunk_loop"
    /\ i' = 0
    /\ offset' = 0
    /\ UNCHANGED <<mainVars, payload, payload_full, payload1, payload2,
                   actual_chunk_count, ret, sendVars, chunks, envVars>>

\* faulty variant: the extra bytes go to the last chunks, not to the first
C19_MutChunkLoop ==
    /\ pc = "chunk_loop"
    /\ IF i < chunk_count
       THEN LET length == Len(payload)
                size == (length \div chunk_count) +
                        (IF i >= chunk_count - (length % chunk_count) THEN 1 ELSE 0)
            IN  CallSendAll(Slice(payload, offset, offset + size), writes)
       ELSE /\ pc' = "chunked_return"
            /\ UNCHANGED <<sendVars, writes>>
    /\ UNCHANGED <<mainVars, caseVars, chunkedVars, chunks,
                   handoffs, sleeps, opened, backoff, partials>>

\* lines 98-101: the next chunk, or the loop's end
ChunkLoop ==
    /\ pc = "chunk_loop"
    /\ IF i < chunk_count
       THEN LET size == chunk_size(Len(payload), chunk_count, i)
            IN  CallSendAll(Slice(payload, offset, offset + size), writes)
       ELSE /\ pc' = "chunked_return"
            /\ UNCHANGED <<sendVars, writes>>
    /\ UNCHANGED <<mainVars, caseVars, chunkedVars, chunks,
                   handoffs, sleeps, opened, backoff, partials>>

\* faulty variant: a sleep follows the final chunk as well
C12_MutShouldSleep(jitter_ms, index, count) == jitter_ms > 0

\* line 104: if jitter_ms > 0 and i != chunk_count - 1
should_sleep(jitter_ms, index, count) == jitter_ms > 0 /\ index # count - 1

\* lines 101-104: send_all returned to send_chunked
ChunkSent ==
    /\ pc = "send_all_return"
    /\ key = <<50>>
    /\ offset' = offset + chunk_size(Len(payload), chunk_count, i)
    /\ IF should_sleep(args.jitter_ms, i, chunk_count)
       THEN pc' = "jitter" /\ i' = i
       ELSE pc' = "chunk_loop" /\ i' = i + 1
    /\ UNCHANGED <<mainVars, caseVars, chunk_count, sendVars, chunks, envVars>>

\* line 105: time.sleep(random.uniform(0.0, jitter_ms / 1000.0)), after chunk i
Jitter ==
    /\ pc = "jitter"
    /\ sleeps' = Append(sleeps, i)
    /\ i' = i + 1
    /\ pc' = "chunk_loop"
    /\ UNCHANGED <<mainVars, caseVars, chunk_count, offset, sendVars, chunks,
                   handoffs, writes, opened, backoff, partials>>

\* lines 107, 146-151: send_chunked returns the count, send_case_once prints
\* it and returns
FragmentedReturn ==
    /\ pc = "chunked_return"
    /\ actual_chunk_count' = chunk_count
    /\ ret' = seq_no + 1
    /\ pc' = "return"
    /\ UNCHANGED <<mainVars, payload, payload_full, payload1, payload2, exc,
                   chunkedVars, sendVars, chunks, envVars>>

\* ---- send_case_once (lines 126-175) ----
\* lines 138-141
AtomicFrame ==
    /\ pc = "call"
    /\ key = <<49>>
    /\ \E draw \in Draws :
         /\ payload' = encode_message_bytes(seq_no, res, args.delimiter, draw)
         /\ CallSendAll(payload', <<>>)
    /\ handoffs' = <<>>
    /\ sleeps' = <<>>
    /\ partials' = 0
    /\ UNCHANGED <<mainVars, payload_full, payload1, payload2, actual_chunk_count,
                   ret, exc, chunkedVars, chunks, opened, backoff>>

\* line 142
AtomicReturn ==
    /\ pc = "send_all_return"
    /\ key = <<49>>
    /\ ret' = seq_no + 1
    /\ pc' = "return"
    /\ UNCHANGED <<mainVars, payload, payload_full, payload1, payload2,
                   actual_chunk_count, exc, chunkedVars, sendVars, chunks, envVars>>

\* lines 144-146
FragmentedFrame ==
    /\ pc = "call"
    /\ key = <<50>>
    /\ \E draw \in Draws :
         payload' = encode_message_bytes(seq_no, res, args.delimiter, draw)
    /\ handoffs' = <<>>
    /\ writes' = <<>>
    /\ sleeps' = <<>>
    /\ partials' = 0
    /\ pc' = "send_chunked"
    /\ UNCHANGED <<mainVars, payload_full, payload1, payload2, actual_chunk_count,
                   ret, exc, chunkedVars, sendVars, chunks, opened, backoff>>

\* line 155: random.randint(1, 12)
WithheldAmounts == 1..12

\* faulty variants: the amount is taken from 0..11; the cut is one byte late
C9_MutCut(length, amount) == Max(1, length - (amount % 12))

C8_MutCut(length, amount) == Max(1, length - amount + 1)

\* line 155: cut = max(1, len(payload_full) - random.randint(1, 12))
truncation_cut(length, amount) == Max(1, length - amount)

\* lines 153-161
IncompleteFrame ==
    /\ pc = "call"
    /\ key = <<51>>
    /\ \E draw \in Draws, amount \in WithheldAmounts :
         /\ payload_full' = encode_message_bytes(seq_no, res, args.delimiter, draw)
         /\ payload' = Slice(payload_full', 0,
                             truncation_cut(Len(payload_full'), amount))
         /\ CallSendAll(payload', <<>>)
    /\ handoffs' = <<>>
    /\ sleeps' = <<>>
    /\ partials' = 0
    /\ UNCHANGED <<mainVars, payload1, payload2, actual_chunk_count,
                   ret, exc, chunkedVars, chunks, opened, backoff>>

\* line 162
IncompleteReturn ==
    /\ pc = "send_all_return"
    /\ key = <<51>>
    /\ ret' = seq_no + 1
    /\ pc' = "return"
    /\ UNCHANGED <<mainVars, payload, payload_full, payload1, payload2,
                   actual_chunk_count, exc, chunkedVars, sendVars, chunks, envVars>>

\* faulty variant: the frames are joined in the wrong order
C7_MutCoalesce(first, second) == second \o first

\* line 167: payload = payload1 + payload2
coalesce(first, second) == first \o second

\* lines 164-172
CoalescedFrames ==
    /\ pc = "call"
    /\ key = <<52>>
    /\ \E draw1 \in Draws, draw2 \in Draws :
         /\ payload1' = encode_message_bytes(seq_no, res, args.delimiter, draw1)
         /\ payload2' = encode_message_bytes(seq_no + 1, res, args.delimiter, draw2)
         /\ payload' = coalesce(payload1', payload2')
         /\ CallSendAll(payload', <<>>)
    /\ handoffs' = <<>>
    /\ sleeps' = <<>>
    /\ partials' = 0
    /\ UNCHANGED <<mainVars, payload_full, actual_chunk_count,
                   ret, exc, chunkedVars, chunks, opened, backoff>>

\* faulty variant: the coalesced case advances the counter by one only
C13_MutCoalescedReturn ==
    /\ pc = "send_all_return"
    /\ key = <<52>>
    /\ ret' = seq_no + 1
    /\ pc' = "return"
    /\ UNCHANGED <<mainVars, payload, payload_full, payload1, payload2,
                   actual_chunk_count, exc, chunkedVars, sendVars, chunks, envVars>>

\* line 173
CoalescedReturn ==
    /\ pc = "send_all_return"
    /\ key = <<52>>
    /\ ret' = seq_no + 2
    /\ pc' = "return"
    /\ UNCHANGED <<mainVars, payload, payload_full, payload1, payload2,
                   actual_chunk_count, exc, chunkedVars, sendVars, chunks, envVars>>

\* ---- connect_with_retry (lines 109-123) ----
\* lines 112-116: the attempt succeeds
ConnectOk ==
    /\ pc = "connect"
    /\ opened' = opened + 1
    /\ sock' = opened'
    /\ backoff' = 0
    /\ pc' = "call"
    /\ UNCHANGED <<args, seq_no, input_count, key, res, caseVars, chunkedVars,
                   sendVars, chunks, handoffs, writes, sleeps, partials>>

\* faulty variant: after one retry a failed attempt ends the call with its
\* error
C17_MutConnectFail ==
    /\ pc = "connect"
    /\ IF backoff = 0
       THEN pc' = "connect_sleep" /\ exc' = exc
       ELSE pc' = "raise" /\ exc' = "OSError"
    /\ UNCHANGED <<mainVars, payload, payload_full, payload1, payload2,
                   actual_chunk_count, ret, chunkedVars, sendVars, chunks, envVars>>

\* lines 117-122: the attempt raises, whichever attempt of the call it is;
\* the attempt's socket is closed
ConnectFail ==
    /\ pc = "connect"
    /\ pc' = "connect_sleep"
    /\ UNCHANGED <<mainVars, caseVars, chunkedVars, sendVars, chunks, envVars>>

\* line 123: the literal of time.sleep(1.0), in seconds
BackoffSeconds == 1

\* line 123: time.sleep(1.0), then the loop's next attempt
ConnectBackoff ==
    /\ pc = "connect_sleep"
    /\ backoff' = BackoffSeconds
    /\ pc' = "connect"
    /\ UNCHANGED <<mainVars, caseVars, chunkedVars, sendVars, chunks,
                   handoffs, writes, sleeps, opened, partials>>

\* ---- main (lines 178-239) ----
\* the characters str.strip() removes (ASCII)
Whitespace == (9..13) \cup (28..32)

RECURSIVE lstrip(_)
lstrip(s) == IF s # <<>> /\ Head(s) \in Whitespace THEN lstrip(Tail(s)) ELSE s

RECURSIVE rstrip(_)
rstrip(s) ==
    IF s # <<>> /\ s[Len(s)] \in Whitespace THEN rstrip(SubSeq(s, 1, Len(s) - 1)) ELSE s

\* line 202: line.strip()
strip(s) == rstrip(lstrip(s))

\* what sys.stdin.readline() may return; "" is the end of input
\* "1\n", "2\n", " 3 \n", "4", "5\n", "12\n", "\n", ""
Lines ==
    {<<49, 10>>, <<50, 10>>, <<32, 51, 32, 10>>, <<52>>, <<53, 10>>, <<49, 50, 10>>,
     <<10>>, <<>>}

\* The command line: --delimiter, --min-chunk, --max-chunk, --jitter-ms.
Configs ==
    { [delimiter |-> "none",    min_chunk |-> 2, max_chunk |-> 3, jitter_ms |-> 5],
      [delimiter |-> "newline", min_chunk |-> 1, max_chunk |-> 2, jitter_ms |-> 0],
      [delimiter |-> "newline", min_chunk |-> 0, max_chunk |-> 2, jitter_ms |-> 5],
      [delimiter |-> "none",    min_chunk |-> 3, max_chunk |-> 2, jitter_ms |-> 0] }

\* lines 186-194
Init ==
    /\ pc = "read"
    /\ args \in Configs
    /\ seq_no = 1 /\ input_count = 0 /\ sock = None /\ key = <<>> /\ res = 0
    /\ payload = <<>> /\ payload_full = <<>> /\ payload1 = <<>> /\ payload2 = <<>>
    /\ actual_chunk_count = None /\ ret = None /\ exc = "none"
    /\ chunk_count = 0 /\ i = 0 /\ offset = 0
    /\ data = <<>> /\ total = 0 /\ sent = 0
    /\ chunks = <<>>
    /\ handoffs = <<>> /\ writes = <<>> /\ sleeps = <<>>
    /\ opened = 0 /\ backoff = 0 /\ partials = 0
    /\ wire = <<>> /\ planned = <<>> /\ failed = {}

\* lines 197-200: end of input
ReadEOF ==
    /\ pc = "read"
    /\ <<>> \in Lines
    /\ pc' = "exit"
    /\ UNCHANGED <<mainVars, caseVars, chunkedVars, sendVars, chunks, envVars>>

\* lines 197-205: a line that is no key; line 202 has assigned it to key
\* before line 203 rejects it
ReadInvalid ==
    /\ pc = "read"
    /\ \E line \in Lines :
         /\ line # <<>>
         /\ strip(line) \notin CASE_NAME_BY_KEY
         /\ key' = strip(line)
    /\ pc' = "read"
    /\ UNCHANGED <<args, seq_no, input_count, sock, res, caseVars, chunkedVars,
                   sendVars, chunks, envVars>>

\* faulty variant: the cycle is indexed from the count, not from count - 1
C14_MutResFor(count) == RES_SEQUENCE[(count % Len(RES_SEQUENCE)) + 1]

\* line 208: res = RES_SEQUENCE[(input_count - 1) % len(RES_SEQUENCE)]
res_for(count) == RES_SEQUENCE[((count - 1) % Len(RES_SEQUENCE)) + 1]

\* lines 197-210: a key
ReadKey ==
    /\ pc = "read"
    /\ input_count < MaxInputs
    /\ \E line \in Lines :
         /\ line # <<>>
         /\ strip(line) \in CASE_NAME_BY_KEY
         /\ key' = strip(line)
    /\ input_count' = input_count + 1
    /\ res' = res_for(input_count')
    /\ pc' = IF sock = None THEN "connect" ELSE "call"
    /\ UNCHANGED <<args, seq_no, sock, caseVars, chunkedVars, sendVars, chunks, envVars>>

\* line 215: seq_no = send_case_once(...); the call's locals are gone
MainAssign ==
    /\ pc = "return"
    /\ seq_no' = ret
    /\ NoLocals
    /\ handoffs' = <<>> /\ writes' = <<>> /\ sleeps' = <<>> /\ partials' = 0
    /\ pc' = "read"
    /\ UNCHANGED <<args, input_count, sock, key, res, chunks, opened, backoff>>

\* faulty variant: a failed delivery consumes its sequence number
C18_MutExcept ==
    /\ pc = "raise"
    /\ sock' = None
    /\ seq_no' = seq_no + 1
    /\ NoLocals
    /\ handoffs' = <<>> /\ writes' = <<>> /\ sleeps' = <<>> /\ partials' = 0
    /\ pc' = "read"
    /\ UNCHANGED <<args, input_count, key, res, chunks, opened, backoff>>

\* faulty variant: the socket is kept after a failed delivery
C16_MutExcept ==
    /\ pc = "raise"
    /\ sock' = sock
    /\ NoLocals
    /\ handoffs' = <<>> /\ writes' = <<>> /\ sleeps' = <<>> /\ partials' = 0
    /\ pc' = "read"
    /\ UNCHANGED <<args, seq_no, input_count, key, res, chunks, opened, backoff>>

\* lines 225-231: any exception of the call: close the socket and drop it
Except ==
    /\ pc = "raise"
    /\ sock' = None
    /\ NoLocals
    /\ handoffs' = <<>> /\ writes' = <<>> /\ sleeps' = <<>> /\ partials' = 0
    /\ pc' = "read"
    /\ UNCHANGED <<args, seq_no, input_count, key, res, chunks, opened, backoff>>

\* lines 233-239
Exit ==
    /\ pc = "exit"
    /\ pc' = "done"
    /\ UNCHANGED <<mainVars, caseVars, chunkedVars, sendVars, chunks, envVars>>

SendCaseOnce ==
    \/ AtomicFrame \/ AtomicReturn
    \/ FragmentedFrame \/ FragmentedReturn
    \/ IncompleteFrame \/ IncompleteReturn
    \/ CoalescedFrames \/ CoalescedReturn

SendChunked == SendChunkedValidate \/ SendChunkedPlan \/ ChunkLoop \/ ChunkSent \/ Jitter

SendAll == SendAllLoop \/ SockSend \/ SockSendRaises \/ SendCheck

ConnectWithRetry == ConnectOk \/ ConnectFail \/ ConnectBackoff

Main == ReadEOF \/ ReadInvalid \/ ReadKey \/ MainAssign \/ Except \/ Exit

\* main() and everything it calls; the observers stand still
Next ==
    \/ ReadEOF /\ UNCHANGED obsVars
    \/ ReadInvalid /\ UNCHANGED obsVars
    \/ ReadKey /\ UNCHANGED obsVars
    \/ MainAssign /\ UNCHANGED obsVars
    \/ Except /\ UNCHANGED obsVars
    \/ Exit /\ UNCHANGED obsVars
    \/ ConnectOk /\ UNCHANGED obsVars
    \/ ConnectFail /\ UNCHANGED obsVars
    \/ ConnectBackoff /\ UNCHANGED obsVars
    \/ AtomicFrame /\ UNCHANGED obsVars
    \/ AtomicReturn /\ UNCHANGED obsVars
    \/ FragmentedFrame /\ UNCHANGED obsVars
    \/ FragmentedReturn /\ UNCHANGED obsVars
    \/ IncompleteFrame /\ UNCHANGED obsVars
    \/ IncompleteReturn /\ UNCHANGED obsVars
    \/ CoalescedFrames /\ UNCHANGED obsVars
    \/ CoalescedReturn /\ UNCHANGED obsVars
    \/ SendChunkedValidate /\ UNCHANGED obsVars
    \/ SendChunkedPlan /\ UNCHANGED obsVars
    \/ ChunkLoop /\ UNCHANGED obsVars
    \/ ChunkSent /\ UNCHANGED obsVars
    \/ Jitter /\ UNCHANGED obsVars
    \/ SendAllLoop /\ UNCHANGED obsVars
    \/ SockSend /\ UNCHANGED obsVars
    \/ SockSendRaises /\ UNCHANGED obsVars
    \/ SendCheck /\ UNCHANGED obsVars

Spec == Init /\ [][Next]_vars

(***************************************************************************)
(* SpecWire: the same program, observed.  wire is the byte stream the open *)
(* connection has accepted since it was opened, planned the bytes the      *)
(* calls of send_case_once on that connection set out to write, in order;  *)
(* failed records every delivery that raised.  Sessions are followed for   *)
(* MaxWireInputs commands, and a truncation withholds 1 or 12 bytes.       *)
(* The session starts with one of the two configurations with jitter.     *)
(***************************************************************************)
WireAmounts == {1, 12}

Observe ==
    /\ wire' =
         IF pc = "sock_send" /\ pc' = "send_check"
         THEN wire \o SubSeq(Slice(data, total, Len(data)), 1, sent')
         ELSE IF pc = "raise" \/ (pc = "connect" /\ pc' = "call") THEN <<>>
         ELSE wire
    /\ planned' =
         IF pc = "call" THEN planned \o payload'
         ELSE IF pc = "raise" \/ (pc = "connect" /\ pc' = "call") THEN <<>>
         ELSE planned
    /\ failed' =
         IF pc = "raise"
         THEN failed \cup {[sock |-> sock, cmd |-> input_count, seq_no |-> seq_no,
                            res |-> res,
                            accepted |-> \E k \in 1..Len(handoffs) :
                                             handoffs[k].sent > 0]}
         ELSE failed
    /\ input_count' <= MaxWireInputs
    /\ (pc = "call" /\ key = <<51>>) =>
           Len(payload_full') - Len(payload') \in WireAmounts

NextWire ==
    \/ ReadEOF /\ Observe
    \/ ReadInvalid /\ Observe
    \/ ReadKey /\ Observe
    \/ MainAssign /\ Observe
    \/ Except /\ Observe
    \/ Exit /\ Observe
    \/ ConnectOk /\ Observe
    \/ ConnectFail /\ Observe
    \/ ConnectBackoff /\ Observe
    \/ AtomicFrame /\ Observe
    \/ AtomicReturn /\ Observe
    \/ FragmentedFrame /\ Observe
    \/ FragmentedReturn /\ Observe
    \/ IncompleteFrame /\ Observe
    \/ IncompleteReturn /\ Observe
    \/ CoalescedFrames /\ Observe
    \/ CoalescedReturn /\ Observe
    \/ SendChunkedValidate /\ Observe
    \/ SendChunkedPlan /\ Observe
    \/ ChunkLoop /\ Observe
    \/ ChunkSent /\ Observe
    \/ Jitter /\ Observe
    \/ SendAllLoop /\ Observe
    \/ SockSend /\ Observe
    \/ SockSendRaises /\ Observe
    \/ SendCheck /\ Observe

\* the configurations that sleep between chunks: one well-formed, one malformed
InitWire == Init /\ args.jitter_ms > 0

SpecWire == InitWire /\ [][NextWire]_vars

(***************************************************************************)
(* SpecChunked: send_chunked(sock, data, min_chunk, max_chunk, jitter_ms)  *)
(* as line 146 calls it, on every byte string of at most MaxLen bytes and  *)
(* every chunk range in ChunkRanges.                                       *)
(***************************************************************************)
(***************************************************************************)
(* SpecConnect: connect_with_retry and what main does with the socket it   *)
(* returns, the call of send_case_once for the pending command (lines      *)
(* 210-231), started in every state in which main calls connect_with_retry:*)
(* a command has been accepted and there is no connection, either because  *)
(* it is the first command or because the previous delivery failed.  Every *)
(* connection opened so far has failed, so of the input_count - 1 earlier  *)
(* commands `opened` failed and the others advanced seq_no by 1 or 2 each. *)
(* The pending command is one of the session's first MaxConnectInputs.     *)
(* An attempt may fail any number of times.  The only fairness is that the *)
(* program keeps running: a sleep returns, an attempt ends one way or the  *)
(* other, a hand-off returns or raises.                                    *)
(***************************************************************************)
InitConnect ==
    /\ pc = "connect"
    /\ args \in Configs
    /\ key \in CASE_NAME_BY_KEY
    /\ input_count \in 1..MaxConnectInputs
    /\ res = res_for(input_count)
    /\ opened \in 0..(input_count - 1)
    /\ (opened = 0) = (input_count = 1)
    /\ seq_no \in (input_count - opened)..(2 * (input_count - 1 - opened) + 1)
    /\ sock = None
    /\ payload = <<>> /\ payload_full = <<>> /\ payload1 = <<>> /\ payload2 = <<>>
    /\ actual_chunk_count = None /\ ret = None /\ exc = "none"
    /\ chunk_count = 0 /\ i = 0 /\ offset = 0
    /\ data = <<>> /\ total = 0 /\ sent = 0
    /\ chunks = <<>>
    /\ handoffs = <<>> /\ writes = <<>> /\ sleeps = <<>>
    /\ backoff = 0 /\ partials = 0
    /\ wire = <<>> /\ planned = <<>> /\ failed = {}

NextConnect ==
    \/ ConnectOk /\ UNCHANGED obsVars
    \/ ConnectFail /\ UNCHANGED obsVars
    \/ ConnectBackoff /\ UNCHANGED obsVars
    \/ AtomicFrame /\ UNCHANGED obsVars
    \/ AtomicReturn /\ UNCHANGED obsVars
    \/ FragmentedFrame /\ UNCHANGED obsVars
    \/ FragmentedReturn /\ UNCHANGED obsVars
    \/ IncompleteFrame /\ UNCHANGED obsVars
    \/ IncompleteReturn /\ UNCHANGED obsVars
    \/ CoalescedFrames /\ UNCHANGED obsVars
    \/ CoalescedReturn /\ UNCHANGED obsVars
    \/ SendChunkedValidate /\ UNCHANGED obsVars
    \/ SendChunkedPlan /\ UNCHANGED obsVars
    \/ ChunkLoop /\ UNCHANGED obsVars
    \/ ChunkSent /\ UNCHANGED obsVars
    \/ Jitter /\ UNCHANGED obsVars
    \/ SendAllLoop /\ UNCHANGED obsVars
    \/ SockSend /\ UNCHANGED obsVars
    \/ SockSendRaises /\ UNCHANGED obsVars
    \/ SendCheck /\ UNCHANGED obsVars
    \/ MainAssign /\ UNCHANGED obsVars
    \/ Except /\ UNCHANGED obsVars

SpecConnect == InitConnect /\ [][NextConnect]_vars /\ WF_vars(NextConnect)


ChunkRanges ==
    {r \in (0..MaxCount) \X (0..MaxCount) : r[2] - r[1] \in (0 - 1)..2}

InitChunked ==
    /\ pc = "send_chunked"
    /\ \E r \in ChunkRanges, j \in {0, 5} :
         args = [delimiter |-> "none", min_chunk |-> r[1], max_chunk |-> r[2],
                 jitter_ms |-> j]
    /\ seq_no = 1 /\ input_count = 1 /\ sock = 1 /\ key = <<50>> /\ res = 0
    /\ payload \in ByteStrings(MaxLen)
    /\ payload_full = <<>> /\ payload1 = <<>> /\ payload2 = <<>>
    /\ actual_chunk_count = None /\ ret = None /\ exc = "none"
    /\ chunk_count = 0 /\ i = 0 /\ offset = 0
    /\ data = <<>> /\ total = 0 /\ sent = 0
    /\ chunks = <<>>
    /\ handoffs = <<>> /\ writes = <<>> /\ sleeps = <<>>
    /\ opened = 1 /\ backoff = 0 /\ partials = 0
    /\ wire = <<>> /\ planned = <<>> /\ failed = {}

NextChunked ==
    \/ SendChunkedValidate /\ UNCHANGED obsVars
    \/ SendChunkedPlan /\ UNCHANGED obsVars
    \/ ChunkLoop /\ UNCHANGED obsVars
    \/ ChunkSent /\ UNCHANGED obsVars
    \/ Jitter /\ UNCHANGED obsVars
    \/ SendAllLoop /\ UNCHANGED obsVars
    \/ SockSend /\ UNCHANGED obsVars
    \/ SockSendRaises /\ UNCHANGED obsVars
    \/ SendCheck /\ UNCHANGED obsVars
    \/ FragmentedReturn /\ UNCHANGED obsVars

SpecChunked == InitChunked /\ [][NextChunked]_vars

(***************************************************************************)
(* SpecSendAll: send_all (lines 46-52) applied to every byte string of up  *)
(* to MaxLen bytes, as called at line 141, over a transport whose sock.send *)
(* returns any count from -1 to the number of bytes offered.  The loop     *)
(* keeps running (weak fairness).                                          *)
(***************************************************************************)
InitSendAll ==
    /\ pc = "send_all"
    /\ args = DefaultArgs
    /\ seq_no = 1 /\ input_count = 1 /\ sock = 1 /\ key = <<49>> /\ res = 0
    /\ payload \in ByteStrings(MaxLen)
    /\ payload_full = <<>> /\ payload1 = <<>> /\ payload2 = <<>>
    /\ actual_chunk_count = None /\ ret = None /\ exc = "none"
    /\ chunk_count = 0 /\ i = 0 /\ offset = 0
    /\ data = payload /\ total = 0 /\ sent = 0
    /\ chunks = <<>>
    /\ handoffs = <<>> /\ writes = <<payload>> /\ sleeps = <<>>
    /\ opened = 1 /\ backoff = 0 /\ partials = 0
    /\ wire = <<>> /\ planned = <<>> /\ failed = {}

\* line 49: sent = sock.send(data[total:]), every count -1..len(data[total:])
SockSendAny ==
    /\ pc = "sock_send"
    /\ LET offered == Slice(data, total, Len(data))
       IN  \E r \in (0 - 1)..Len(offered) :
             /\ sent' = r
             /\ handoffs' = Append(handoffs,
                                   [offered |-> offered, sent |-> r, raised |-> FALSE])
             /\ partials' = IF 0 < r /\ r < Len(offered) THEN partials + 1 ELSE partials
    /\ pc' = "send_check"
    /\ UNCHANGED <<mainVars, caseVars, chunkedVars, data, total, chunks,
                   writes, sleeps, opened, backoff>>

NextSendAll ==
    \/ SendAllLoop /\ UNCHANGED obsVars
    \/ SockSendAny /\ UNCHANGED obsVars
    \/ SendCheck /\ UNCHANGED obsVars

SpecSendAll == InitSendAll /\ [][NextSendAll]_vars /\ WF_vars(NextSendAll)

(***************************************************************************)
(* The Chunk Splitter's contract, under SpecSplit.                         *)
(***************************************************************************)
SplitReturned == pc = "split_return"

\* C1: for a non-empty byte string and a count N >= 1 the slices are
\* contiguous and non-overlapping (slice k is exactly the range of the input
\* that starts where slice k-1 ended, and the last one ends at the input's
\* end), and their concatenation in order is the input.
C1_SplitRoundTrip ==
    (SplitReturned /\ Len(data) >= 1 /\ chunk_count >= 1) =>
        /\ Concat(chunks) = data
        /\ LenSum(chunks, Len(chunks)) = Len(data)
        /\ \A k \in 1..Len(chunks) :
               chunks[k] = SubSeq(data, LenSum(chunks, k - 1) + 1, LenSum(chunks, k))

C1_Witness ==
    /\ SplitReturned /\ Len(data) = 5 /\ chunk_count = 3
    /\ chunks = <<SubSeq(data, 1, 2), SubSeq(data, 3, 4), SubSeq(data, 5, 5)>>
    /\ data = <<0, 1, 1, 0, 1>>

\* C2: for a count N >= 1 the plan has exactly min(N, L) slices, none empty,
\* when L > 0, and is the single empty slice when L = 0.
C2_SplitPlanSize ==
    (SplitReturned /\ chunk_count >= 1) =>
        /\ Len(data) > 0 =>
               /\ Len(chunks) = Min(chunk_count, Len(data))
               /\ \A k \in 1..Len(chunks) : Len(chunks[k]) >= 1
        /\ Len(data) = 0 => chunks = << <<>> >>

C2_Witness ==
    /\ SplitReturned /\ chunk_count = 7 /\ Len(data) = 3
    /\ Len(chunks) = 3

\* C3: for N >= 1 and L >= 1, with effective_N = min(N, L), the first
\* L mod effective_N slices have (L div effective_N) + 1 bytes and the later
\* ones L div effective_N; and in every plan any two slices differ in length
\* by at most 1 byte.
C3_SplitFairness ==
    SplitReturned =>
        /\ (chunk_count >= 1 /\ Len(data) >= 1) =>
               LET effective_N == Min(chunk_count, Len(data))
                   base        == Len(data) \div effective_N
                   remainder   == Len(data) % effective_N
               IN  /\ Len(chunks) = effective_N
                   /\ \A k \in 1..Len(chunks) :
                          Len(chunks[k]) = IF k <= remainder THEN base + 1 ELSE base
        /\ \A j, k \in 1..Len(chunks) : Len(chunks[j]) - Len(chunks[k]) <= 1

C3_Witness ==
    /\ SplitReturned /\ chunk_count = 3 /\ Len(data) = 5
    /\ Len(chunks[1]) = 2 /\ Len(chunks[2]) = 2 /\ Len(chunks[3]) = 1

\* C4 as stated: a count <= 0 makes the splitter fail with an InvalidArgument
\* error (Python's ValueError) and return no plan.
C4_SplitRejectsNonPositive ==
    (SplitReturned /\ chunk_count <= 0) => (exc = "ValueError" /\ chunks = <<>>)

\* C4, amended: split_into_n_chunks does not reject a count <= 0; like a
\* count of 1 it raises nothing and returns the one-slice plan [data].
C4_SplitNonPositiveReturnsWhole ==
    (SplitReturned /\ chunk_count <= 0) => (exc = "none" /\ chunks = <<data>>)

C4_Witness ==
    /\ SplitReturned /\ chunk_count = 0 - 2 /\ Len(data) = 3
    /\ chunks = <<data>>

(***************************************************************************)
(* The Delivery Simulator's scenarios.                                     *)
(***************************************************************************)
\* the bytes the transport has accepted from the current call, in order
AcceptedBytes ==
    Concat([k \in 1..Len(handoffs) |->
               SubSeq(handoffs[k].offered, 1, handoffs[k].sent)])

\* send_case_once has returned to main for the given key
Delivered(k) == pc = "return" /\ key = k

\* C5 (under SpecChunked): a fragmented delivery that succeeds, for a range
\* with 1 <= min_chunk <= max_chunk and a payload of L bytes, returns a chunk
\* count C with min(min_chunk, L) <= C <= min(max_chunk, L); it has written
\* exactly C chunks, whose lengths sum to L, and the transport has accepted
\* exactly the L bytes of the payload.
C5_FragmentedCount ==
    (Delivered(<<50>>) /\ args.min_chunk >= 1 /\ args.max_chunk >= args.min_chunk) =>
        LET L == Len(payload)
        IN  /\ Min(args.min_chunk, L) <= actual_chunk_count
            /\ actual_chunk_count <= Min(args.max_chunk, L)
            /\ Len(writes) = actual_chunk_count
            /\ LenSum(writes, Len(writes)) = L
            /\ AcceptedBytes = payload

C5_Witness ==
    /\ Delivered(<<50>>)
    /\ Len(payload) = 2 /\ args.min_chunk = 3 /\ args.max_chunk = 5
    /\ actual_chunk_count = 2
    /\ Len(handoffs) = 2

\* C6: an AtomicFrame delivery that returns has made exactly one write, of
\* the whole frame encoded for (seq_no, res); the transport has accepted
\* exactly the frame's L bytes; the call returns seq_no + 1.
C6_AtomicOneWrite ==
    Delivered(<<49>>) =>
        /\ \E draw \in Draws :
               payload = encode_message_bytes(seq_no, res, args.delimiter, draw)
        /\ writes = <<payload>>
        /\ AcceptedBytes = payload
        /\ sleeps = <<>>
        /\ ret = seq_no + 1

C6_Witness ==
    /\ Delivered(<<49>>)
    /\ Len(handoffs) = 2 /\ handoffs[1].sent = 1
    /\ Len(AcceptedBytes) >= 172
    /\ ret = 2

\* C7: a CoalescedFrames delivery at counter n that returns has made exactly
\* one write, whose content is the frame encoded for n followed by the frame
\* separately encoded for n + 1 with the same response code, with no sleep;
\* the transport has accepted exactly those bytes; the call returns n + 2.
C7_CoalescedOneWrite ==
    Delivered(<<52>>) =>
        /\ \E draw1 \in Draws, draw2 \in Draws :
               writes = << encode_message_bytes(seq_no, res, args.delimiter, draw1)
                           \o encode_message_bytes(seq_no + 1, res, args.delimiter, draw2) >>
        /\ AcceptedBytes = writes[1]
        /\ sleeps = <<>>
        /\ ret = seq_no + 2

C7_Witness ==
    /\ Delivered(<<52>>)
    /\ seq_no = 2 /\ ret = 4 /\ res = 1
    /\ Len(payload1) # Len(payload2)
    /\ AcceptedBytes = payload1 \o payload2
    /\ Len(handoffs) = 2

\* the bytes a truncated delivery of an L-byte frame writes, for a drawn amount
WrittenOf(L, amount) == Min(truncation_cut(L, amount), L)

\* C8: an IncompleteFrame delivery that returns has written only a prefix of
\* the encoded frame: with L the frame's length, 1 <= bytes written <= L - 1
\* when L >= 13, and at least 1 byte is withheld when 1 < L < 13; the call
\* returns seq_no + 1.  The truncation rule of line 155, which the delivery
\* has applied, gives the same bounds for every length 2..13+MaxLen and every
\* amount 1..12.
C8_IncompleteBounds ==
    Delivered(<<51>>) =>
        LET L == Len(payload_full)
            written == Len(AcceptedBytes)
        IN  /\ AcceptedBytes = SubSeq(payload_full, 1, written)
            /\ writes = <<AcceptedBytes>>
            /\ L >= 13 => (1 <= written /\ written <= L - 1)
            /\ (1 < L /\ L < 13) => L - written >= 1
            /\ ret = seq_no + 1
            /\ \A N \in 2..(13 + MaxLen), amount \in WithheldAmounts :
                   /\ N >= 13 => (1 <= WrittenOf(N, amount) /\ WrittenOf(N, amount) <= N - 1)
                   /\ N < 13 => N - WrittenOf(N, amount) >= 1

C8_Witness ==
    /\ Delivered(<<51>>)
    /\ Len(AcceptedBytes) = Len(payload_full) - 12
    /\ Len(payload_full) >= 13
    /\ ret = seq_no + 1

\* C9: every frame the encoder produces is longer than 1 byte, and in an
\* IncompleteFrame delivery the bytes given to send_all are a prefix of the
\* frame that lacks at least 1 byte and holds at least 1 byte: the transport
\* never accepts the whole frame, and has accepted at least 1 byte when the
\* call returns.
C9_IncompleteWithholds ==
    (key = <<51>> /\ payload_full # <<>>) =>
        /\ Len(payload_full) >= 2
        /\ payload = SubSeq(payload_full, 1, Len(payload))
        /\ 1 <= Len(payload) /\ Len(payload) <= Len(payload_full) - 1
        /\ Len(AcceptedBytes) <= Len(payload)
        /\ pc = "return" => AcceptedBytes = payload

C9_Witness ==
    /\ Delivered(<<51>>)
    /\ Len(payload) = Len(payload_full) - 1
    /\ Len(handoffs) = 2

\* C10: a hand-off that reports zero or a negative count is the last
\* hand-off of its call: the program is at the check of line 50 or is
\* propagating the RuntimeError it raised there, the chunk it was writing is
\* still the last one begun, and the call never returns.
C10_TransportFailureStops ==
    \A k \in 1..Len(handoffs) :
        (~handoffs[k].raised /\ handoffs[k].sent <= 0) =>
            /\ k = Len(handoffs)
            /\ pc \in {"send_check", "raise"}
            /\ pc = "raise" => exc = "RuntimeError"
            /\ writes[Len(writes)] = data
            /\ handoffs[k].offered = SubSeq(data, total + 1, Len(data))
            /\ ret = None

C10_Witness ==
    /\ pc = "raise" /\ exc = "RuntimeError"
    /\ key = <<50>> /\ chunk_count = 3 /\ Len(writes) = 2
    /\ Len(handoffs) = 3 /\ handoffs[3].sent = 0 /\ handoffs[2].sent = 1
    /\ total = 1

IsPrefix(a, b) == Len(a) <= Len(b) /\ a = SubSeq(b, 1, Len(a))

\* where, in the connection's stream, the running call's bytes begin
CallStart == Len(planned) - Len(payload)

\* send_case_once (or something it calls) is running
InCall == pc \in {"send_chunked", "randint", "chunk_loop", "jitter",
                  "chunked_return", "send_all", "sock_send", "send_check",
                  "send_all_return"}

\* C11 (under SpecWire): on the open connection the accepted byte stream is
\* always a prefix of the bytes the calls on it set out to write, in command
\* order and, inside a fragmented call, in plan order; a call begins only
\* when every byte of the earlier calls has been accepted; a chunk is first
\* handed over only when every byte of the earlier chunks has been accepted;
\* and every hand-off offers exactly the planned bytes that follow the
\* accepted ones, up to the end of the current chunk and no further, also
\* after a partial acceptance.
C11_WireOrdering ==
    /\ IsPrefix(wire, planned)
    /\ pc = "call" => wire = planned
    /\ InCall =>
         /\ CallStart >= 0
         /\ payload = SubSeq(planned, CallStart + 1, Len(planned))
         /\ IsPrefix(Concat(writes), payload)
    /\ pc \in {"send_all", "sock_send"} =>
           Len(wire) = CallStart + LenSum(writes, Len(writes) - 1) + total
    /\ pc = "send_check" =>
         LET h == handoffs[Len(handoffs)]
             accepted == Max(h.sent, 0)
             from == Len(wire) - accepted
             chunkEnd == CallStart + LenSum(writes, Len(writes))
         IN  /\ from = CallStart + LenSum(writes, Len(writes) - 1) + total
             /\ h.offered = SubSeq(planned, from + 1, chunkEnd)
             /\ wire = SubSeq(planned, 1, from + accepted)

\* the second command on one connection is a fragmented one, its second chunk
\* was accepted in part and the rest of that chunk has just been handed over
C11_Witness ==
    /\ pc = "send_check" /\ key = <<50>> /\ input_count = 2
    /\ CallStart > 0
    /\ Len(writes) = 2 /\ total > 0 /\ sent > 0
    /\ Len(handoffs) = 3

\* C12 (under SpecChunked): in a fragmented delivery of C chunks a sleep
\* happens only when a chunk has been written and accepted in full and the
\* next one has not been started; the j-th sleep follows the j-th chunk and
\* none follows the final chunk, so every later chunk starts after exactly
\* one sleep per earlier chunk and a successful delivery with jitter > 0 has
\* slept exactly C - 1 times; with jitter = 0 there is no sleep at all.
C12_JitterPlacement ==
    /\ args.jitter_ms = 0 => sleeps = <<>>
    /\ \A j \in 1..Len(sleeps) : sleeps[j] = j - 1 /\ j < chunk_count
    /\ pc = "jitter" =>
         /\ Len(sleeps) = i
         /\ Len(writes) = i + 1
         /\ total = Len(data)
         /\ AcceptedBytes = Concat(writes)
    /\ (pc \in {"send_all", "sock_send", "send_check"} /\ args.jitter_ms > 0) =>
           Len(sleeps) = Len(writes) - 1
    /\ (pc = "return" /\ args.jitter_ms > 0) =>
           Len(sleeps) = actual_chunk_count - 1 /\ Len(writes) = actual_chunk_count

\* three chunks delivered with jitter: two sleeps
C12_Witness ==
    /\ pc = "return" /\ args.jitter_ms > 0
    /\ actual_chunk_count = 3 /\ sleeps = <<0, 1>>

\* the sequence numbers of the messages a call of send_case_once encodes
UsedSeqNos ==
    IF key = <<52>> THEN {seq_no, seq_no + 1} ELSE {seq_no}

\* C13 (under Spec): the sequence counter starts at 1 and never decreases;
\* it changes only when a delivery has succeeded, then by exactly 1 for the
\* atomic, fragmented and incomplete cases and by exactly 2 for the
\* coalesced case; the messages of a successful delivery carry the numbers
\* from the old counter value up to, not including, the new one, so no
\* number is used by two successfully delivered messages.
C13_SeqNoAdvance ==
    /\ seq_no = 1
    /\ [][ IF pc = "return"
           THEN /\ seq_no' = seq_no + (IF key = <<52>> THEN 2 ELSE 1)
                /\ UsedSeqNos = seq_no..(seq_no' - 1)
           ELSE seq_no' = seq_no ]_vars
    /\ [](Delivered(<<52>>) =>
            \E d1 \in Draws, d2 \in Draws :
                /\ payload1 = encode_message_bytes(seq_no, res, args.delimiter, d1)
                /\ payload2 = encode_message_bytes(seq_no + 1, res, args.delimiter, d2))
    /\ []((pc = "return" /\ key \in {<<49>>, <<50>>}) =>
            \E d \in Draws :
                payload = encode_message_bytes(seq_no, res, args.delimiter, d))
    /\ [](Delivered(<<51>>) =>
            \E d \in Draws :
                payload_full = encode_message_bytes(seq_no, res, args.delimiter, d))

\* a coalesced delivery that follows a successful single-frame one
C13_Witness ==
    /\ Delivered(<<52>>) /\ input_count = 2
    /\ seq_no = 2 /\ ret = 4

\* the response code of the k-th accepted command, as the claim tabulates it
Cycle(k) ==
    CASE k % 4 = 1 -> 0
      [] k % 4 = 2 -> 1
      [] k % 4 = 3 -> 2
      [] k % 4 = 0 -> 99

\* the frames send_case_once has encoded carry the response code r
FramesCarry(r) ==
    CASE key \in {<<49>>, <<50>>} ->
           \E d \in Draws : payload = encode_message_bytes(seq_no, r, args.delimiter, d)
      [] key = <<51>> ->
           \E d \in Draws : payload_full = encode_message_bytes(seq_no, r, args.delimiter, d)
      [] key = <<52>> ->
           \E d1 \in Draws, d2 \in Draws :
               /\ payload1 = encode_message_bytes(seq_no, r, args.delimiter, d1)
               /\ payload2 = encode_message_bytes(seq_no + 1, r, args.delimiter, d2)

\* C14 (under Spec): the count of accepted commands starts at 0 and goes up
\* by one exactly when main accepts a command (a key 1-4 is read), whatever
\* the key, the sequence counter and the fate of earlier deliveries; the
\* k-th accepted command gets the code [0, 1, 2, 99][(k - 1) mod 4] and its
\* frames are encoded with it; every other step, an invalid input included,
\* leaves count and code alone.
C14_ResCycle ==
    /\ input_count = 0
    /\ [][ IF pc = "read" /\ pc' \in {"connect", "call"}
           THEN /\ input_count' = input_count + 1
                /\ res' = Cycle(input_count')
           ELSE /\ input_count' = input_count
                /\ res' = res ]_vars
    /\ []((InCall \/ pc = "return") => FramesCarry(Cycle(input_count)))

\* the fifth accepted command wraps around to code 0, after a failed delivery
C14_Witness ==
    /\ pc = "return" /\ input_count = 5 /\ res = 0
    /\ opened = 2 /\ seq_no < 5

\* the chunk configuration is malformed
Malformed == args.min_chunk <= 0 \/ args.max_chunk < args.min_chunk

\* C15 as claimed (under Spec): with a malformed chunk configuration no call
\* of send_case_once, whatever the key, hands a byte to the transport or
\* returns normally.  The atomic, incomplete and coalesced cases violate it.
C15_MalformedAlwaysFails ==
    Malformed => (handoffs = <<>> /\ writes = <<>> /\ pc # "return")

\* C15, amended (under Spec): with a malformed chunk configuration a
\* fragmented delivery (key 2) raises ValueError in send_chunked before
\* anything is written or handed to the transport, and ValueError is raised
\* in no other way; the failure ends that call only: main goes back to
\* reading, where the next command can be accepted.  The other cases never
\* read the chunk configuration and do not fail with ValueError.
C15_MalformedFragmentedFails ==
    /\ []((Malformed /\ key = <<50>> /\ (InCall \/ pc \in {"return", "raise"})) =>
            /\ handoffs = <<>> /\ writes = <<>>
            /\ pc \in {"send_chunked", "raise"}
            /\ pc = "raise" => exc = "ValueError")
    /\ [](exc = "ValueError" => (Malformed /\ key = <<50>> /\ pc = "raise"))
    /\ [][(pc = "send_chunked" /\ Malformed) =>
              (pc' = "raise" /\ exc' = "ValueError")]_vars
    /\ [][exc = "ValueError" =>
              (pc' = "read" /\ input_count' = input_count /\ exc' = "none")]_vars
    /\ []((pc = "read" /\ input_count < MaxInputs) => ENABLED ReadKey)

\* a fragmented delivery has just failed on a malformed range; it was the
\* session's second command
C15_Witness ==
    /\ pc = "raise" /\ exc = "ValueError" /\ Malformed
    /\ input_count = 2 /\ handoffs = <<>>

\* C16 (under SpecWire): once a call of send_case_once has failed, its
\* connection is never the session's connection again, so no byte is written
\* on it, and no later call is made for the failed command: whatever is
\* written afterwards belongs to a later accepted command and goes to a
\* connection opened after the failure.  Right after the failure main holds
\* no connection, and while it holds none it only reads or connects.
C16_NoRetryOnFailure ==
    /\ \A f \in failed :
         /\ f.sock # None
         /\ sock # f.sock
         /\ (InCall \/ pc \in {"call", "return", "raise"}) =>
                (input_count > f.cmd /\ sock > f.sock)
    /\ (InCall \/ pc \in {"call", "return", "raise"}) =>
           (sock # None /\ sock = opened)
    /\ sock = None => pc \in {"read", "connect", "connect_sleep", "exit", "done"}
    /\ Cardinality(failed) = opened - (IF sock = None THEN 0 ELSE 1)

\* the command after a failed one is being written on the second connection
C16_Witness ==
    /\ pc = "send_check" /\ sent > 0
    /\ input_count = 2 /\ sock = 2
    /\ \E f \in failed : f.cmd = 1 /\ f.sock = 1

\* C18 (under SpecWire): no step of a call of send_case_once, and no step
\* that handles its failure, changes the sequence counter, whether or not
\* the transport had accepted bytes of the call; the failed command has
\* consumed its response code all the same: it is counted, and it was sent
\* with the code of its place in the cycle.  The command accepted next
\* therefore encodes its frames with the sequence number of the failed one
\* and with the next response code.
C18_FailureKeepsSeqNo ==
    /\ [][(InCall \/ pc \in {"call", "raise"}) =>
              (seq_no' = seq_no /\ input_count' = input_count)]_vars
    /\ [](\A f \in failed :
            /\ f.cmd <= input_count
            /\ f.res = Cycle(f.cmd)
            /\ f.cmd = input_count => (pc \in {"read", "exit", "done"} /\ seq_no = f.seq_no)
            /\ (f.cmd + 1 = input_count /\ (InCall \/ pc \in {"call", "return", "raise"})) =>
                   /\ seq_no = f.seq_no
                   /\ res = Cycle(f.cmd + 1)
                   /\ res # f.res
                   /\ pc # "call" => FramesCarry(res))

\* the first command failed after the transport had accepted bytes of it;
\* the second is being written with the same sequence number and code 1
C18_Witness ==
    /\ pc = "send_check" /\ input_count = 2
    /\ seq_no = 1 /\ res = 1
    /\ \E f \in failed : f.cmd = 1 /\ f.accepted /\ f.seq_no = 1 /\ f.res = 0

\* C17 as claimed (under SpecConnect): once connect_with_retry has got its
\* connection, the pending command is delivered; main is therefore never
\* back at reading the next command with the pending one undelivered, that
\* is, with its call failed and the connection dropped.  A transport
\* failure, or the ValueError of a malformed range, after the connect
\* violates it.
C17_PendingAlwaysDelivered ==
    pc = "read" => sock # None

\* C17, amended (under SpecConnect): connect_with_retry leaves its loop only
\* by returning a connected, new socket to main, with the same command
\* pending; it never raises and never gives up, however many attempts have
\* failed: a failed attempt goes to the backoff sleep, which lasts 1 second
\* and is followed by another attempt, so every retry comes after a sleep of
\* 1 second, and either attempts fail for ever or the call returns.  main
\* then makes the call of send_case_once for the pending command, and that
\* call ends: the command is delivered, or its delivery fails and main goes
\* back to reading without a connection and without another try.
C17_ConnectRetries ==
    /\ [][(pc \in {"connect", "connect_sleep"}) =>
              ( /\ pc' \in {"connect", "connect_sleep", "call"}
                /\ pc' = "call" => (sock' # None /\ sock' = opened' /\ opened' = opened + 1)
                /\ pc' # "call" => (sock' = None /\ opened' = opened)
                /\ exc' = "none" )]_vars
    /\ [][key' = key /\ input_count' = input_count]_vars
    /\ [][(pc = "connect" /\ pc' # "call") =>
              (pc' = "connect_sleep" /\ backoff' = backoff)]_vars
    /\ [][pc = "connect_sleep" => (pc' = "connect" /\ backoff' = 1)]_vars
    /\ (pc = "connect_sleep") ~> (pc = "connect")
    /\ (pc = "connect") ~> (pc \in {"connect_sleep", "call"})
    /\ <>(pc = "call") \/ []<>(pc = "connect_sleep")
    /\ (pc = "call") ~> (pc = "read")
    /\ [][(pc = "return") => (pc' = "read" /\ sock' = sock /\ seq_no' > seq_no)]_vars
    /\ [][(pc = "raise") => (pc' = "read" /\ sock' = None /\ seq_no' = seq_no)]_vars

\* an attempt has failed after a retry: the call sleeps for the second time
\* at least
C17_Witness ==
    /\ pc = "connect_sleep" /\ backoff = 1 /\ sock = None
    /\ input_count = 2

\* C19 (under SpecChunked): for a payload of L >= 1 bytes and a well-formed
\* range, whichever count c of the range send_chunked has drawn (every c
\* that the capped count chunk_count can come from), the chunks it writes
\* are, one after the other, the slices of split_into_n_chunks(payload, c),
\* and a send_chunked that returns has written exactly that plan.
C19_ChunkedMatchesSplitter ==
    (/\ args.min_chunk >= 1 /\ args.max_chunk >= args.min_chunk
     /\ Len(payload) >= 1
     /\ pc \notin {"send_chunked", "randint"}) =>
        \A c \in args.min_chunk..args.max_chunk :
            Min(c, Len(payload)) = chunk_count =>
                LET plan == split_into_n_chunks(payload, c)
                IN  /\ Len(writes) <= Len(plan)
                    /\ writes = SubSeq(plan, 1, Len(writes))
                    /\ pc \in {"chunked_return", "return"} => writes = plan

\* five bytes in three chunks of 2, 2 and 1 bytes
C19_Witness ==
    /\ pc = "return" /\ Len(payload) = 5
    /\ args.min_chunk = 3 /\ chunk_count = 3
    /\ Len(writes[1]) = 2 /\ Len(writes[2]) = 2 /\ Len(writes[3]) = 1

\* the bytes the first k hand-offs of the call were reported to accept
RECURSIVE AcceptedCount(_)
AcceptedCount(k) == IF k = 0 THEN 0 ELSE AcceptedCount(k - 1) + handoffs[k].sent

\* C20 (under SpecSendAll): for a chunk of n bytes and a transport that
\* answers every hand-off with a count <= 0 or a count from 1 to the bytes
\* offered, send_all makes at most n hand-offs, each offering exactly the
\* suffix not yet accepted, and only the last of them can have a count
\* <= 0; it always terminates, either returning with exactly the n bytes
\* accepted or raising RuntimeError at the first count <= 0; for n = 0 it
\* returns without any hand-off.
C20_SendAllTerminates ==
    /\ [](Len(handoffs) <= Len(data))
    /\ [](\A k \in 1..Len(handoffs) :
            /\ handoffs[k].offered =
                   SubSeq(data, AcceptedCount(k - 1) + 1, Len(data))
            /\ handoffs[k].sent <= Len(handoffs[k].offered)
            /\ k < Len(handoffs) => handoffs[k].sent > 0)
    /\ [](pc = "send_all_return" =>
            /\ total = Len(data)
            /\ AcceptedBytes = data
            /\ \A k \in 1..Len(handoffs) : handoffs[k].sent > 0)
    /\ [](pc = "raise" =>
            /\ exc = "RuntimeError"
            /\ handoffs # <<>>
            /\ handoffs[Len(handoffs)].sent <= 0
            /\ total = AcceptedCount(Len(handoffs) - 1)
            /\ total < Len(data))
    /\ [][(pc = "send_check" /\ sent <= 0) => pc' = "raise"]_vars
    /\ <>(pc \in {"send_all_return", "raise"})

\* five bytes accepted one at a time: five hand-offs
C20_Witness ==
    /\ pc = "send_all_return" /\ Len(data) = 5
    /\ Len(handoffs) = 5

====
